---- MODULE Spec2Model ----
(***************************************************************************)
(* Model of the two rewrite scripts scripts/fix-types.py (the Type         *)
(* Annotator) and scripts/fix-addtool-pattern.py (the Pattern Rewriter).   *)
(*                                                                         *)
(* A text is a sequence of one-character strings.  Offsets are Python's:   *)
(* the first character has offset 0.  Regular expressions are sequences of *)
(* items matched by a backtracking matcher with Python's greedy priority.  *)
(***************************************************************************)
EXTENDS Integers, Sequences, FiniteSets, TLC

VARIABLES tool, pc, run, file, content, schemas, changes, new_content,
          named_log, inline_log, rewrite_log, written, input, outputs

vars == <<tool, pc, run, file, content, schemas, changes, new_content,
          named_log, inline_log, rewrite_log, written, input, outputs>>

(***************************************************************************)
(* Bounds of the model.                                                    *)
(***************************************************************************)
\* number of statements an input file is made of
MaxStmts == 2
\* number of times a script is run on the same file
MaxRuns == 2

(***************************************************************************)
(* Python string primitives.                                               *)
(***************************************************************************)
MinOf(S) == CHOOSE x \in S : \A y \in S : x <= y
MaxOf(S) == CHOOSE x \in S : \A y \in S : x >= y

\* t[i]
CharAt(t, i) == t[i + 1]

\* t[a:b] for 0 <= a, clamped to the text as Python clamps a slice
Slice(t, a, b) ==
  LET lo == IF a > Len(t) THEN Len(t) ELSE a
      hi == IF b > Len(t) THEN Len(t) ELSE b
  IN  IF hi <= lo THEN <<>> ELSE SubSeq(t, lo + 1, hi)

\* t.startswith(p)
StartsWith(t, p) == Len(t) >= Len(p) /\ SubSeq(t, 1, Len(p)) = p

\* whether p occurs in t at offset i
IsAt(p, t, i) ==
  /\ i + Len(p) <= Len(t)
  /\ \A j \in 1..Len(p) : t[i + j] = p[j]

\* the offsets at which p occurs in t
Occurrences(p, t) == {i \in 0..Len(t) : IsAt(p, t, i)}

\* the characters \s matches
Space == {" ", "\n", "\t", "\r", "\f"}

\* the characters \w matches
Word == {"a","b","c","d","e","f","g","h","i","j","k","l","m","n","o","p","q","r",
         "s","t","u","v","w","x","y","z","A","B","C","D","E","F","G","H","I","J",
         "K","L","M","N","O","P","Q","R","S","T","U","V","W","X","Y","Z","0","1",
         "2","3","4","5","6","7","8","9","_"}

\* t.strip()
Strip(t) ==
  LET keep == {i \in 1..Len(t) : t[i] \notin Space}
  IN  IF keep = {} THEN <<>> ELSE SubSeq(t, MinOf(keep), MaxOf(keep))

\* t.rstrip() and t.rstrip(',')
RStripSet(t, cs) ==
  LET keep == {i \in 1..Len(t) : t[i] \notin cs}
  IN  IF keep = {} THEN <<>> ELSE SubSeq(t, 1, MaxOf(keep))

\* t.split(c): the pieces of t between the occurrences of the character c
RECURSIVE Split(_, _)
Split(t, c) ==
  LET at == {i \in 1..Len(t) : t[i] = c}
  IN  IF at = {} THEN <<t>>
      ELSE <<SubSeq(t, 1, MinOf(at) - 1)>> \o Split(SubSeq(t, MinOf(at) + 1, Len(t)), c)

\* sep.join(parts)
RECURSIVE Join(_, _)
Join(sep, parts) ==
  IF parts = <<>> THEN <<>>
  ELSE IF Len(parts) = 1 THEN parts[1]
  ELSE parts[1] \o sep \o Join(sep, Tail(parts))

(***************************************************************************)
(* Regular expressions (module re).  An item is a literal, a repeated      *)
(* character class, a repeated or optional group, or a parenthesis of a    *)
(* capture group.                                                          *)
(***************************************************************************)
Lit(s) == [k |-> "lit", s |-> s]
\* a character class repeated between min and max times (max = -1: unbounded)
Cls(neg, cs, min, max) == [k |-> "cls", neg |-> neg, cs |-> cs, min |-> min, max |-> max]
One(cs) == Cls(FALSE, cs, 1, 1)
Star(cs) == Cls(FALSE, cs, 0, -1)
Plus(cs) == Cls(FALSE, cs, 1, -1)
NotStar(cs) == Cls(TRUE, cs, 0, -1)
NotPlus(cs) == Cls(TRUE, cs, 1, -1)
\* (?:sub)* and (?:sub)?
Rep(sub) == [k |-> "rep", sub |-> sub]
Opt(sub) == [k |-> "opt", sub |-> sub]
Open(g) == [k |-> "open", g |-> g]
Close(g) == [k |-> "close", g |-> g]

NoMatch == [ok |-> FALSE]
NoGroups == [g \in 1..4 |-> [s |-> -1, e |-> -1]]

InClass(c, it) == (c \in it.cs) # it.neg

\* how many characters from offset i on belong to the class of item it: the run
\* ends at the first character outside the class, at the end of the text, or at
\* the item's maximum
RunLen(t, i, it) ==
  LET full == CHOOSE n \in 0..(Len(t) - i) :
                /\ i + n = Len(t) \/ ~InClass(CharAt(t, i + n), it)
                /\ \A j \in 0..(n - 1) : InClass(CharAt(t, i + j), it)
  IN  IF it.max >= 0 /\ full > it.max THEN it.max ELSE full

\* Match the items at offset i of t: the end of the match and its groups.
\* A repetition takes the longest run first and gives characters back while the
\* rest of the expression fails, as Python's matcher does.
RECURSIVE MatchAt(_, _, _, _), GiveBack(_, _, _, _, _, _)
MatchAt(items, t, i, caps) ==
  IF items = <<>> THEN [ok |-> TRUE, start |-> i, end |-> i, caps |-> caps]
  ELSE LET it == Head(items)
           rest == Tail(items)
       IN  CASE it.k = "lit" ->
                  IF IsAt(it.s, t, i) THEN MatchAt(rest, t, i + Len(it.s), caps)
                  ELSE NoMatch
             [] it.k = "cls" ->
                  LET n == RunLen(t, i, it)
                  IN  IF n < it.min THEN NoMatch
                      ELSE GiveBack(it, rest, t, i, caps, n)
             [] it.k = "rep" ->
                  LET more == MatchAt(it.sub \o items, t, i, caps)
                  IN  IF more.ok THEN more ELSE MatchAt(rest, t, i, caps)
             [] it.k = "opt" ->
                  LET with == MatchAt(it.sub \o rest, t, i, caps)
                  IN  IF with.ok THEN with ELSE MatchAt(rest, t, i, caps)
             [] it.k = "open" ->
                  MatchAt(rest, t, i, [caps EXCEPT ![it.g].s = i])
             [] it.k = "close" ->
                  MatchAt(rest, t, i, [caps EXCEPT ![it.g].e = i])
GiveBack(it, rest, t, i, caps, n) ==
  LET r == MatchAt(rest, t, i + n, caps)
  IN  IF r.ok THEN r
      ELSE IF n > it.min THEN GiveBack(it, rest, t, i, caps, n - 1)
      ELSE NoMatch

\* the literal an expression begins with (every pattern of the two scripts
\* begins with one, after at most the parenthesis of a group)
FirstLit(items) == IF items[1].k = "lit" THEN items[1].s ELSE items[2].s

\* the offsets from `from` on where a match of items can start: those holding
\* the first character of its first literal
Candidates(items, t, from) ==
  LET first == FirstLit(items)
  IN  IF first = <<>> THEN from..Len(t)
      ELSE {i \in from..(Len(t) - 1) : t[i + 1] = first[1]}

\* re.search(items, t) from offset from on: the leftmost match
Search(items, t, from) ==
  LET starts == {i \in Candidates(items, t, from) : MatchAt(items, t, i, NoGroups).ok}
  IN  IF starts = {} THEN NoMatch
      ELSE [MatchAt(items, t, MinOf(starts), NoGroups) EXCEPT !.start = MinOf(starts)]

\* match.group(g), and match.group(0)
Group(t, m, g) == Slice(t, m.caps[g].s, m.caps[g].e)
Group0(t, m) == Slice(t, m.start, m.end)

\* the offsets of t at which the items match
MatchStarts(items, t) ==
  {i \in Candidates(items, t, 0) : MatchAt(items, t, i, NoGroups).ok}

\* the matches re.finditer and re.sub visit: the leftmost match, then the
\* leftmost one that starts at or after its end, and so on
RECURSIVE PickFrom(_, _, _, _)
PickFrom(items, t, starts, from) ==
  LET later == {i \in starts : i >= from}
      m == [MatchAt(items, t, MinOf(later), NoGroups) EXCEPT !.start = MinOf(later)]
  IN  IF later = {} THEN <<>> ELSE <<m>> \o PickFrom(items, t, starts, m.end)
FindAll(items, t, from) == PickFrom(items, t, MatchStarts(items, t), from)

(***************************************************************************)
(* scripts/fix-types.py: the Type Annotator.                               *)
(***************************************************************************)
Quote == {"'", "\""}

\* const\s+(\w+Schema)\s*=\s*z\.object\s*\(\s*\{([^}]+)\}
schema_pattern ==
  <<Lit(<<"c","o","n","s","t">>), Plus(Space), Open(1), Plus(Word), Lit(<<"S","c","h","e","m","a">>), Close(1),
    Star(Space), Lit(<<"=">>), Star(Space), Lit(<<"z",".","o","b","j","e","c","t">>), Star(Space), Lit(<<"(">>),
    Star(Space), Lit(<<"{">>), Open(2), NotPlus({"}"}), Close(2), Lit(<<"}">>)>>

\* this\.registerTool\s*\(\s*['"][^'"]+"['"],\s*['"][^'"]+"['"],\s*
\* (the first group of both call patterns; each literal is a quote, characters
\* that are no quote, a double quote, and a quote)
CallPrefix ==
  <<Lit(<<"t","h","i","s",".","r","e","g","i","s","t","e","r","T","o","o","l">>), Star(Space), Lit(<<"(">>), Star(Space),
    One(Quote), NotPlus(Quote), Lit(<<"\"">>), One(Quote), Lit(<<",">>), Star(Space),
    One(Quote), NotPlus(Quote), Lit(<<"\"">>), One(Quote), Lit(<<",">>), Star(Space)>>

\* (prefix)(\w+(?:Schema)?)(,\s*createToolHandler)(\s*\()
pattern ==
  <<Open(1)>> \o CallPrefix \o
  <<Close(1), Open(2), Plus(Word), Opt(<<Lit(<<"S","c","h","e","m","a">>)>>), Close(2),
    Open(3), Lit(<<",">>), Star(Space), Lit(<<"c","r","e","a","t","e","T","o","o","l","H","a",
                                              "n","d","l","e","r">>), Close(3),
    Open(4), Star(Space), Lit(<<"(">>), Close(4)>>

\* (prefix)(z\.object\s*\([^)]+\))(,\s*createToolHandler)(\s*\()
inline_pattern ==
  <<Open(1)>> \o CallPrefix \o
  <<Close(1), Open(2), Lit(<<"z",".","o","b","j","e","c","t">>), Star(Space), Lit(<<"(">>), NotPlus({")"}),
    Lit(<<")">>), Close(2),
    Open(3), Lit(<<",">>), Star(Space), Lit(<<"c","r","e","a","t","e","T","o","o","l","H","a",
                                              "n","d","l","e","r">>), Close(3),
    Open(4), Star(Space), Lit(<<"(">>), Close(4)>>

\* async\s*\(\s*\{([^}]+)\}
handler_pattern ==
  <<Lit(<<"a","s","y","n","c">>), Star(Space), Lit(<<"(">>), Star(Space), Lit(<<"{">>),
    Open(1), NotPlus({"}"}), Close(1), Lit(<<"}">>)>>

\* {param_name}:\s*z\.(\w+)\(      (param_name is made of word characters)
type_pattern(param_name) ==
  <<Lit(param_name), Lit(<<":">>), Star(Space), Lit(<<"z",".">>), Open(1), Plus(Word),
    Close(1), Lit(<<"(">>)>>

\* {param_name}:\s*z\.\w+\([^)]*\)\.optional\(\)
optional_pattern(param_name) ==
  <<Lit(param_name), Lit(<<":">>), Star(Space), Lit(<<"z",".">>), Plus(Word), Lit(<<"(">>),
    NotStar({")"}), Lit(<<")">>), Lit(<<".","o","p","t","i","o","n","a","l","(",")">>)>>

\* the characters read after a match to see whether it is annotated
LookAhead == 10
\* the characters searched after a match for the handler's parameter list
HandlerWindow == 200

\* extract_schemas: schema name -> body text, a later declaration replacing an
\* earlier one of the same name
extract_schemas(text) ==
  LET ms == FindAll(schema_pattern, text, 0)
      names == {Group(text, ms[k], 1) : k \in 1..Len(ms)}
      last(n) == MaxOf({k \in 1..Len(ms) : Group(text, ms[k], 1) = n})
  IN  [n \in names |-> Group(text, ms[last(n)], 2)]

\* next_chars.startswith('<'), next_chars read from `text` at the match's end
AlreadyAnnotated(text, m) ==
  StartsWith(Slice(text, m.end, m.end + LookAhead), <<"<">>)

\* replacer without the test `schema_name in schemas`: every call site that is
\* not followed by '<' is annotated
replacer_unresolved(orig, declared, t, m) ==
  IF AlreadyAnnotated(orig, m) THEN [out |-> Group0(t, m), inc |-> 0]
  ELSE [out |-> Group(t, m, 1) \o Group(t, m, 2) \o Group(t, m, 3)
                  \o <<"<","z",".","i","n","f","e","r","<","t","y","p","e","o","f"," ">> \o Group(t, m, 2) \o <<">",">">> \o Group(t, m, 4),
        inc |-> 1]

\* replacer(match): the replacement text and the increment of `changes`.
\* orig is the closure's `content`, t the text being rewritten.
replacer(orig, declared, t, m) ==
  LET prefix == Group(t, m, 1)
      schema_name == Group(t, m, 2)
      middle == Group(t, m, 3)
      suffix == Group(t, m, 4)
  IN  IF AlreadyAnnotated(orig, m) THEN [out |-> Group0(t, m), inc |-> 0]
      ELSE IF schema_name \in DOMAIN declared
      THEN [out |-> prefix \o schema_name \o middle \o <<"<","z",".","i","n","f","e","r","<","t",
                                                         "y","p","e","o","f"," ">>
                      \o schema_name \o <<">",">">> \o suffix,
            inc |-> 1]
      ELSE [out |-> Group0(t, m), inc |-> 0]

\* {...}.get(zod_type, 'any')
ts_type(zod_type) ==
  CASE zod_type = <<"s","t","r","i","n","g">> -> <<"s","t","r","i","n","g">>
    [] zod_type = <<"n","u","m","b","e","r">> -> <<"n","u","m","b","e","r">>
    [] zod_type = <<"b","o","o","l","e","a","n">> -> <<"b","o","o","l","e","a","n">>
    [] zod_type = <<"a","r","r","a","y">> -> <<"a","n","y","[","]">>
    [] zod_type = <<"o","b","j","e","c","t">> -> <<"R","e","c","o","r","d","<","s","t","r",
                                                   "i","n","g",","," ","a","n","y",">">>
    [] zod_type = <<"e","n","u","m">> -> <<"s","t","r","i","n","g">>
    [] zod_type = <<"o","p","t","i","o","n","a","l">> -> <<"a","n","y">>
    [] OTHER -> <<"a","n","y">>

\* the entry of one destructured parameter (the body of the loop over params)
param_entry(param, schema) ==
  LET param_name == Strip(Split(param, ":")[1])
      type_match == Search(type_pattern(param_name), schema, 0)
  IN  IF type_match.ok
      THEN IF Search(optional_pattern(param_name), schema, 0).ok
           THEN param_name \o <<"?",":"," ">> \o ts_type(Group(schema, type_match, 1))
           ELSE param_name \o <<":"," ">> \o ts_type(Group(schema, type_match, 1))
      ELSE param_name \o <<":"," ","a","n","y">>

\* handler_match: the first parameter-destructuring list in the window after
\* the match, searched in the text being rewritten
handler_window(t, m) == Slice(t, m.end, m.end + HandlerWindow)
handler_search(t, m) == Search(handler_pattern, handler_window(t, m), 0)

\* param_types of a match whose handler_match succeeded
param_types(t, m) ==
  LET hm == handler_search(t, m)
      raw == Split(Group(handler_window(t, m), hm, 1), ",")
      params == [k \in 1..Len(raw) |-> Strip(raw[k])]
  IN  [k \in 1..Len(params) |-> param_entry(params[k], Group(t, m, 2))]

\* inline_replacer without `changes += 1`
inline_replacer_uncounted(orig, t, m) ==
  IF AlreadyAnnotated(orig, m) \/ ~handler_search(t, m).ok
  THEN [out |-> Group0(t, m), inc |-> 0]
  ELSE [out |-> Group(t, m, 1) \o Group(t, m, 2) \o Group(t, m, 3) \o <<"<","{"," ">>
                  \o Join(<<";"," ">>, param_types(t, m)) \o <<" ","}",">">> \o Group(t, m, 4),
        inc |-> 0]

\* inline_replacer(match): the replacement text and the increment of `changes`.
\* orig is the closure's `content` (the text as read), t the text being
\* rewritten (the output of the named-schema pass).
inline_replacer(orig, t, m) ==
  LET prefix == Group(t, m, 1)
      schema == Group(t, m, 2)
      middle == Group(t, m, 3)
      suffix == Group(t, m, 4)
  IN  IF AlreadyAnnotated(orig, m) THEN [out |-> Group0(t, m), inc |-> 0]
      ELSE IF handler_search(t, m).ok /\ param_types(t, m) # <<>>
      THEN [out |-> prefix \o schema \o middle \o <<"<">> \o <<"{"," ">>
                      \o Join(<<";"," ">>, param_types(t, m)) \o <<" ","}">> \o <<">">> \o suffix,
            inc |-> 1]
      ELSE [out |-> Group0(t, m), inc |-> 0]

\* re.sub: the text with every match replaced by its replacement
RECURSIVE SubFrom(_, _, _, _, _)
SubFrom(t, ms, outs, k, from) ==
  IF k > Len(ms) THEN Slice(t, from, Len(t))
  ELSE Slice(t, from, ms[k].start) \o outs[k] \o SubFrom(t, ms, outs, k + 1, ms[k].end)
ReSub(t, ms, outs) == SubFrom(t, ms, outs, 1, 0)

RECURSIVE SumInc(_)
SumInc(rs) == IF rs = <<>> THEN 0 ELSE Head(rs).inc + SumInc(Tail(rs))

\* what a pass over the text t did at each match: the match, the text matched,
\* the text put in its place, and the characters that follow the match in t
PassLog(t, ms, outs) ==
  [k \in 1..Len(ms) |->
     [m |-> ms[k], old |-> Group0(t, ms[k]), out |-> outs[k],
      next |-> Slice(t, ms[k].end, ms[k].end + HandlerWindow)]]

\* the matches of re.sub(pattern, replacer, content)
named_matches(text) == FindAll(pattern, text, 0)

\* the matches of re.sub(inline_pattern, inline_replacer, new_content)
inline_matches(text) == FindAll(inline_pattern, text, 0)

(***************************************************************************)
(* The input files of the Type Annotator: sequences of these statements.   *)
(***************************************************************************)
\* a declared schema and a call with plainly quoted literals
StmtNamedPlain ==
  <<"c","o","n","s","t"," ","F","o","o","S","c","h","e","m","a"," ","="," ","z",".","o","b",
    "j","e","c","t","(","{"," ","a",":"," ","z",".","s","t","r","i","n","g","(",")"," ","}",
    ")",";","\n","t","h","i","s",".","r","e","g","i","s","t","e","r","T","o","o","l","(","'",
    "n","'",",","'","d","'",","," ","F","o","o","S","c","h","e","m","a",","," ","c","r","e",
    "a","t","e","T","o","o","l","H","a","n","d","l","e","r","(","a","s","y","n","c"," ","(",
    "a","r","g","s",")"," ","=",">"," ","a","r","g","s",".","a",")",")",";","\n">>
\* a declared schema and a call whose literals end in a double quote
StmtNamed ==
  <<"c","o","n","s","t"," ","F","o","o","S","c","h","e","m","a"," ","="," ","z",".","o","b",
    "j","e","c","t","(","{"," ","a",":"," ","z",".","s","t","r","i","n","g","(",")"," ","}",
    ")",";","\n","t","h","i","s",".","r","e","g","i","s","t","e","r","T","o","o","l","(","'",
    "n","\"","'",",","'","d","\"","'",","," ","F","o","o","S","c","h","e","m","a",","," ","c",
    "r","e","a","t","e","T","o","o","l","H","a","n","d","l","e","r","(","a","s","y","n","c",
    " ","(","a","r","g","s",")"," ","=",">"," ","a","r","g","s",".","a",")",")",";","\n">>
\* a call naming FooSchema and followed by '<'
StmtFollowedByAngle ==
  <<"t","h","i","s",".","r","e","g","i","s","t","e","r","T","o","o","l","(","'","n","\"","'",
    ",","'","d","\"","'",","," ","F","o","o","S","c","h","e","m","a",","," ","c","r","e","a",
    "t","e","T","o","o","l","H","a","n","d","l","e","r","(","<","A","r","g","s",">","(","a",
    "s","y","n","c"," ","(","a","r","g","s",")"," ","=",">"," ","1",")",")",")",";","\n">>
\* an inline schema with an optional string field and a number field
StmtInlineFields ==
  <<"t","h","i","s",".","r","e","g","i","s","t","e","r","T","o","o","l","(","'","n","\"","'",
    ","," ","'","d","\"","'",","," ","z",".","o","b","j","e","c","t","(","{"," ","b","a","r",
    ":"," ","z",".","s","t","r","i","n","g","(",")",".","o","p","t","i","o","n","a","l","(",
    ")",","," ","c","o","u","n","t",":"," ","z",".","n","u","m","b","e","r","(",")"," ","}",
    ")",","," ","c","r","e","a","t","e","T","o","o","l","H","a","n","d","l","e","r","(","a",
    "s","y","n","c"," ","(","{"," ","b","a","r",","," ","c","o","u","n","t"," ","}",")"," ",
    "=",">"," ","b","a","r",")",")",";","\n">>
\* an inline schema text whose first ')' is followed by the handler wrapper
StmtInlineMarker ==
  <<"t","h","i","s",".","r","e","g","i","s","t","e","r","T","o","o","l","(","'","n","\"","'",
    ","," ","'","d","\"","'",","," ","z",".","o","b","j","e","c","t","(","{"," ","c","o","u",
    "n","t",":"," ","z",".","n","u","m","b","e","r","(",")",","," ","c","r","e","a","t","e",
    "T","o","o","l","H","a","n","d","l","e","r","(","a","s","y","n","c"," ","(","{"," ","c",
    "o","u","n","t",","," ","b","a","r"," ","}",")"," ","=",">"," ","b","a","r",")",")",";",
    "\n">>
\* an inline schema without field markers; the handler has '<' 27 characters in
StmtInlineShape ==
  <<"t","h","i","s",".","r","e","g","i","s","t","e","r","T","o","o","l","(","'","n","\"","'",
    ","," ","'","d","\"","'",","," ","z",".","o","b","j","e","c","t","(","s","h","a","p","e",
    ")",","," ","c","r","e","a","t","e","T","o","o","l","H","a","n","d","l","e","r","(","a",
    "s","y","n","c"," ","(","{"," ","c","o","u","n","t",","," ","b","a","r"," ","}",")"," ",
    "=",">"," ","0","<","c","o","u","n","t",")",")",";","\n">>
\* two calls whose handlers destructure nothing: one names a schema that no
\* statement declares, one has an inline schema
StmtNoLists ==
  <<"t","h","i","s",".","r","e","g","i","s","t","e","r","T","o","o","l","(","'","m","\"","'",
    ",","'","e","\"","'",","," ","B","a","r","S","c","h","e","m","a",","," ","c","r","e","a",
    "t","e","T","o","o","l","H","a","n","d","l","e","r","(","a","s","y","n","c"," ","(","a",
    "r","g","s",")"," ","=",">"," ","2",")",")",";","\n","t","h","i","s",".","r","e","g","i",
    "s","t","e","r","T","o","o","l","(","'","n","\"","'",","," ","'","d","\"","'",","," ","z",
    ".","o","b","j","e","c","t","(","s","h","a","p","e",")",","," ","c","r","e","a","t","e",
    "T","o","o","l","H","a","n","d","l","e","r","(","a","s","y","n","c"," ","(","a","r","g",
    "s",")"," ","=",">"," ","1",")",")",";","\n">>

AnnotatorStmts ==
  <<StmtNamedPlain, StmtNamed, StmtFollowedByAngle, StmtInlineFields,
    StmtInlineMarker, StmtInlineShape, StmtNoLists>>

RECURSIVE Flatten(_)
Flatten(ss) == IF ss = <<>> THEN <<>> ELSE Head(ss) \o Flatten(Tail(ss))

\* the files made of at most MaxStmts statements
FilesOf(stmts) ==
  UNION {{Flatten([i \in 1..k |-> stmts[f[i]]]) : f \in [1..k -> 1..Len(stmts)]} :
         k \in 0..MaxStmts}

(***************************************************************************)
(* scripts/fix-addtool-pattern.py: the Pattern Rewriter.                   *)
(***************************************************************************)
Brace == {"{", "}"}
\* the single quote, the double quote and the backquote (a character that a
\* string of this language cannot hold, so it is named)
AnyQuote == {"'", "\"", "backquote"}

\* this\.addTool\(\{([^{}]*(?:\{[^{}]*\}[^{}]*)*)\}\);
addtool_pattern ==
  <<Lit(<<"t","h","i","s",".","a","d","d","T","o","o","l","(","{">>), Open(1), NotStar(Brace),
    Rep(<<Lit(<<"{">>), NotStar(Brace), Lit(<<"}">>), NotStar(Brace)>>), Close(1),
    Lit(<<"}",")",";">>)>>

\* name:\s*[Q]([^Q]+)[Q]   where Q stands for the three quote characters
name_pattern ==
  <<Lit(<<"n","a","m","e",":">>), Star(Space), One(AnyQuote), Open(1), NotPlus(AnyQuote), Close(1),
    One(AnyQuote)>>

\* description:\s*[Q]([^Q]+)[Q]
desc_pattern ==
  <<Lit(<<"d","e","s","c","r","i","p","t","i","o","n",":">>), Star(Space), One(AnyQuote), Open(1), NotPlus(AnyQuote),
    Close(1), One(AnyQuote)>>

\* inputSchema:\s*(\w+)
inputschema_pattern ==
  <<Lit(<<"i","n","p","u","t","S","c","h","e","m","a",":">>), Star(Space), Open(1), Plus(Word), Close(1)>>

\* handler:\s*(async\s*\([^)]*\)\s*=>\s*\{.*)   with re.DOTALL
addtool_handler_pattern ==
  <<Lit(<<"h","a","n","d","l","e","r",":">>), Star(Space), Open(1), Lit(<<"a","s","y","n","c">>), Star(Space), Lit(<<"(">>),
    NotStar({")"}), Lit(<<")">>), Star(Space), Lit(<<"=",">">>), Star(Space), Lit(<<"{">>),
    NotStar({}), Close(1)>>

\* indent = "    "
Indent == <<" "," "," "," ">>

\* block_content = match.group(1).strip()
block_content(t, m) == Strip(Group(t, m, 1))

\* all([name_match, desc_match, schema_match])
has_properties(block) ==
  /\ Search(name_pattern, block, 0).ok
  /\ Search(desc_pattern, block, 0).ok
  /\ Search(inputschema_pattern, block, 0).ok

\* handler_text without .rstrip(','): a trailing comma stays
handler_text_keepcomma(block) ==
  RStripSet(Group(block, Search(addtool_handler_pattern, block, 0), 1), Space)

\* handler = handler_match.group(1).rstrip().rstrip(',')
handler_text(block) ==
  RStripSet(RStripSet(Group(block, Search(addtool_handler_pattern, block, 0), 1), Space),
            {","})

\* the new registerTool call built from the four pieces
new_call(name, description, schema, handler) ==
  Indent \o <<"t","h","i","s",".","r","e","g","i","s","t","e","r","T","o","o","l","(","\n",
              " "," "," "," "," "," ","'">> \o name \o <<"'",",","\n"," "," "," "," "," "," ",
                                                         "'">> \o description
    \o <<"'",",","\n"," "," "," "," "," "," ">> \o schema \o <<",","\n"," "," "," "," "," "," ","c",
                                                               "r","e","a","t","e","T","o","o","l","H",
                                                               "a","n","d","l","e","r","(">> \o handler
    \o <<")","\n"," "," "," "," ",")">>

\* transform_match without the test of handler_match: a block without an async
\* handler is rewritten with an empty handler
transform_match_unchecked(t, m) ==
  LET block == block_content(t, m)
      found == Search(addtool_handler_pattern, block, 0)
  IN  IF ~has_properties(block) THEN Group0(t, m)
      ELSE new_call(Group(block, Search(name_pattern, block, 0), 1),
                    Group(block, Search(desc_pattern, block, 0), 1),
                    Group(block, Search(inputschema_pattern, block, 0), 1),
                    IF found.ok THEN RStripSet(Group(block, found, 1), Space \cup {","})
                    ELSE <<>>)

\* transform_match(match): the text that replaces the match
transform_match(t, m) ==
  LET block == block_content(t, m)
  IN  IF ~has_properties(block) THEN Group0(t, m)
      ELSE IF ~Search(addtool_handler_pattern, block, 0).ok THEN Group0(t, m)
      ELSE new_call(Group(block, Search(name_pattern, block, 0), 1),
                    Group(block, Search(desc_pattern, block, 0), 1),
                    Group(block, Search(inputschema_pattern, block, 0), 1),
                    handler_text(block))

\* the matches of re.sub(pattern, transform_match, content)
addtool_matches(text) == FindAll(addtool_pattern, text, 0)

(***************************************************************************)
(* The input files of the Pattern Rewriter: sequences of these statements. *)
(***************************************************************************)
\* a block with the four properties, the handler followed by a comma
BlockFull ==
  <<"t","h","i","s",".","a","d","d","T","o","o","l","(","{","\n"," "," ","n","a","m","e",":",
    " ","'","e","c","h","o","'",",","\n"," "," ","d","e","s","c","r","i","p","t","i","o","n",
    ":"," ","'","E","c","h","o","'",",","\n"," "," ","i","n","p","u","t","S","c","h","e","m",
    "a",":"," ","E","c","h","o","S","c","h","e","m","a",",","\n"," "," ","h","a","n","d","l",
    "e","r",":"," ","a","s","y","n","c"," ","(","a","r","g","s",")"," ","=",">"," ","{"," ",
    "r","e","t","u","r","n"," ","a","r","g","s",";"," ","}",",","\n","}",")",";","\n">>
\* a block with the four properties on one line, the handler last
BlockOneLine ==
  <<"t","h","i","s",".","a","d","d","T","o","o","l","(","{"," ","n","a","m","e",":"," ","\"",
    "s","u","m","\"",","," ","d","e","s","c","r","i","p","t","i","o","n",":"," ","\"","A","d",
    "d","\"",","," ","i","n","p","u","t","S","c","h","e","m","a",":"," ","S","u","m","S","c",
    "h","e","m","a",","," ","h","a","n","d","l","e","r",":"," ","a","s","y","n","c"," ","(",
    "{"," ","a",","," ","b"," ","}",")"," ","=",">"," ","{"," ","r","e","t","u","r","n"," ",
    "a"," ","+"," ","b",";"," ","}"," ","}",")",";","\n">>
\* blocks that lack one property
BlockNoName ==
  <<"t","h","i","s",".","a","d","d","T","o","o","l","(","{"," ","d","e","s","c","r","i","p",
    "t","i","o","n",":"," ","'","E","c","h","o","'",","," ","i","n","p","u","t","S","c","h",
    "e","m","a",":"," ","E","c","h","o","S","c","h","e","m","a",","," ","h","a","n","d","l",
    "e","r",":"," ","a","s","y","n","c"," ","(","a","r","g","s",")"," ","=",">"," ","{"," ",
    "r","e","t","u","r","n"," ","1",";"," ","}"," ","}",")",";","\n">>
BlockNoDescription ==
  <<"t","h","i","s",".","a","d","d","T","o","o","l","(","{"," ","n","a","m","e",":"," ","'",
    "e","c","h","o","'",","," ","i","n","p","u","t","S","c","h","e","m","a",":"," ","E","c",
    "h","o","S","c","h","e","m","a",","," ","h","a","n","d","l","e","r",":"," ","a","s","y",
    "n","c"," ","(","a","r","g","s",")"," ","=",">"," ","{"," ","r","e","t","u","r","n"," ",
    "1",";"," ","}"," ","}",")",";","\n">>
BlockNoSchema ==
  <<"t","h","i","s",".","a","d","d","T","o","o","l","(","{"," ","n","a","m","e",":"," ","'",
    "e","c","h","o","'",","," ","d","e","s","c","r","i","p","t","i","o","n",":"," ","'","E",
    "c","h","o","'",","," ","h","a","n","d","l","e","r",":"," ","a","s","y","n","c"," ","(",
    "a","r","g","s",")"," ","=",">"," ","{"," ","r","e","t","u","r","n"," ","1",";"," ","}",
    " ","}",")",";","\n">>
\* a block whose handler is no async arrow function
BlockNoHandler ==
  <<"t","h","i","s",".","a","d","d","T","o","o","l","(","{"," ","n","a","m","e",":"," ","'",
    "e","c","h","o","'",","," ","d","e","s","c","r","i","p","t","i","o","n",":"," ","'","E",
    "c","h","o","'",","," ","i","n","p","u","t","S","c","h","e","m","a",":"," ","E","c","h",
    "o","S","c","h","e","m","a",","," ","h","a","n","d","l","e","r",":"," ","t","h","i","s",
    ".","e","c","h","o"," ","}",")",";","\n">>
\* a line that is no block
LineOther ==
  <<" "," ","/","/"," ","t","o","o","l","s","\n">>

RewriterStmts ==
  <<BlockFull, BlockOneLine, BlockNoName, BlockNoDescription, BlockNoSchema,
    BlockNoHandler, LineOther>>

(***************************************************************************)
(* The scripts as state machines.  `file` is the file on disk; the other   *)
(* variables are the locals of the running script.  named_log, inline_log  *)
(* and rewrite_log record what each re.sub did at each of its matches;     *)
(* outputs records the file after each run; input is the file as given.    *)
(***************************************************************************)
Init ==
  /\ tool \in {"annotator", "rewriter"}
  /\ file \in (IF tool = "annotator" THEN FilesOf(AnnotatorStmts)
               ELSE FilesOf(RewriterStmts))
  /\ input = file
  /\ pc = "start"
  /\ run = 1
  /\ content = <<>>
  /\ schemas = <<>>
  /\ changes = 0
  /\ new_content = <<>>
  /\ named_log = <<>>
  /\ inline_log = <<>>
  /\ rewrite_log = <<>>
  /\ written = FALSE
  /\ outputs = <<>>

\* fix-types.py lines 24-28: read the file, collect the schemas, changes = 0
ReadFile ==
  /\ tool = "annotator" /\ pc = "start"
  /\ content' = file
  /\ schemas' = extract_schemas(file)
  /\ changes' = 0
  /\ pc' = "named"
  /\ UNCHANGED <<tool, run, file, new_content, named_log, inline_log, rewrite_log,
                 written, input, outputs>>

\* fix-types.py line 53: the named-schema pass
NamedPass ==
  /\ tool = "annotator" /\ pc = "named"
  /\ LET ms == named_matches(content)
         rs == [k \in 1..Len(ms) |-> replacer(content, schemas, content, ms[k])]
         outs == [k \in 1..Len(rs) |-> rs[k].out]
     IN  /\ new_content' = ReSub(content, ms, outs)
         /\ changes' = changes + SumInc(rs)
         /\ named_log' = PassLog(content, ms, outs)
  /\ pc' = "inline"
  /\ UNCHANGED <<tool, run, file, content, schemas, inline_log, rewrite_log,
                 written, input, outputs>>

\* fix-types.py line 110: the inline-schema pass, over the named pass's output
InlinePass ==
  /\ tool = "annotator" /\ pc = "inline"
  /\ LET ms == inline_matches(new_content)
         rs == [k \in 1..Len(ms) |-> inline_replacer(content, new_content, ms[k])]
         outs == [k \in 1..Len(rs) |-> rs[k].out]
     IN  /\ new_content' = ReSub(new_content, ms, outs)
         /\ changes' = changes + SumInc(rs)
         /\ inline_log' = PassLog(new_content, ms, outs)
  /\ pc' = "persist"
  /\ UNCHANGED <<tool, run, file, content, schemas, named_log, rewrite_log,
                 written, input, outputs>>

\* fix-types.py lines 112-119: write the file when something changed
Persist ==
  /\ tool = "annotator" /\ pc = "persist"
  /\ IF changes > 0
     THEN file' = new_content /\ written' = TRUE
     ELSE UNCHANGED <<file, written>>
  /\ outputs' = Append(outputs, file')
  /\ pc' = "done"
  /\ UNCHANGED <<tool, run, content, schemas, changes, new_content, named_log,
                 inline_log, rewrite_log, input>>

\* fix-addtool-pattern.py lines 52-55: read the file and transform it
Rewrite ==
  /\ tool = "rewriter" /\ pc = "start"
  /\ content' = file
  /\ LET ms == addtool_matches(file)
         outs == [k \in 1..Len(ms) |-> transform_match(file, ms[k])]
     IN  /\ new_content' = ReSub(file, ms, outs)
         /\ rewrite_log' = PassLog(file, ms, outs)
  /\ pc' = "write"
  /\ UNCHANGED <<tool, run, file, schemas, changes, named_log, inline_log,
                 written, input, outputs>>

\* fix-addtool-pattern.py lines 57-60: write the file back
WriteBack ==
  /\ tool = "rewriter" /\ pc = "write"
  /\ file' = new_content
  /\ written' = TRUE
  /\ outputs' = Append(outputs, file')
  /\ pc' = "done"
  /\ UNCHANGED <<tool, run, content, schemas, changes, new_content, named_log,
                 inline_log, rewrite_log, input>>

\* the script is run again on the file it left
RunAgain ==
  /\ pc = "done" /\ run < MaxRuns
  /\ run' = run + 1
  /\ pc' = "start"
  /\ content' = <<>>
  /\ schemas' = <<>>
  /\ changes' = 0
  /\ new_content' = <<>>
  /\ named_log' = <<>>
  /\ inline_log' = <<>>
  /\ rewrite_log' = <<>>
  /\ written' = FALSE
  /\ UNCHANGED <<tool, file, input, outputs>>

Next ==
  \/ ReadFile
  \/ NamedPass
  \/ InlinePass
  \/ Persist
  \/ Rewrite
  \/ WriteBack
  \/ RunAgain

Spec == Init /\ [][Next]_vars

(***************************************************************************)
(* Reading the logs and the texts.                                         *)
(***************************************************************************)
AnnotatorAt(p) == tool = "annotator" /\ pc = p
RewriterAt(p) == tool = "rewriter" /\ pc = p

\* group g of a logged match, read from the text it matched
LogGroup(e, g) == Slice(e.old, e.m.caps[g].s - e.m.start, e.m.caps[g].e - e.m.start)

\* the matches of a pass whose text was replaced by another text
Inserted(log) == {k \in 1..Len(log) : log[k].out # log[k].old}

\* by how much the replacements before match k moved it
RECURSIVE Shift(_, _)
Shift(log, k) ==
  IF k <= 1 THEN 0 ELSE Shift(log, k - 1) + Len(log[k - 1].out) - Len(log[k - 1].old)

\* what the output text of a pass holds where match k was
PlacedText(text, log, k) ==
  Slice(text, log[k].m.start + Shift(log, k),
        log[k].m.start + Shift(log, k) + Len(log[k].out))

Count(p, t) == Cardinality(Occurrences(p, t))
Contains(t, p) == Occurrences(p, t) # {}
EndsWith(t, p) == Len(t) >= Len(p) /\ SubSeq(t, Len(t) - Len(p) + 1, Len(t)) = p

\* the destructuring list found in the window after a logged inline match
ListFound(e) == Search(handler_pattern, e.next, 0).ok
\* the parameter names of a destructuring list match hm in the window w
NamesOf(w, hm) ==
  LET raw == Split(Group(w, hm, 1), ",")
  IN  [j \in 1..Len(raw) |-> Strip(Split(Strip(raw[j]), ":")[1])]
\* the destructuring list of the handler that starts where the match ends
OwnList(e) == MatchAt(handler_pattern, e.next, RunLen(e.next, 0, Star(Space)), NoGroups)

\* the text an annotated match gained, between createToolHandler and '('
Annotation(e) ==
  LET suffix == e.m.caps[4].e - e.m.caps[4].s
  IN  Slice(e.out, Len(e.old) - suffix, Len(e.out) - suffix)
\* the entries of an inline annotation <{ a: t; b: u }>
Entries(e) ==
  LET inner == Slice(Annotation(e), 3, Len(Annotation(e)) - 3)
      raw == Split(inner, ";")
  IN  [j \in 1..Len(raw) |-> Strip(raw[j])]
EntryName(entry) == RStripSet(Split(entry, ":")[1], {"?"})

\* a block of the Pattern Rewriter that lacks one of the four pieces
Incomplete(e) ==
  LET block == Strip(LogGroup(e, 1))
  IN  \/ ~Search(name_pattern, block, 0).ok
      \/ ~Search(desc_pattern, block, 0).ok
      \/ ~Search(inputschema_pattern, block, 0).ok
      \/ ~Search(addtool_handler_pattern, block, 0).ok

\* the handler of a block as it stands in the file: from `async` to the end of
\* the block, without the closing of the block and without a trailing comma
VerbatimHandler(old) ==
  LET from == MinOf(Occurrences(<<"a","s","y","n","c">>, old))
      body == RStripSet(Slice(old, from, Len(old) - 3), Space)
  IN  IF body # <<>> /\ body[Len(body)] = "," THEN SubSeq(body, 1, Len(body) - 1)
      ELSE body

(***************************************************************************)
(* The claims.                                                             *)
(***************************************************************************)

\* C1: a second run of the Type Annotator on the file a first run produced
\* reports zero changes and leaves the file identical.
C1_SecondRunChangesNothing ==
  (AnnotatorAt("done") /\ run = 2) => (changes = 0 /\ file = outputs[1])

\* C2: given the declared schema FooSchema and the call site
\* this.registerTool('n','d', FooSchema, createToolHandler( with no '<' after it,
\* the output holds FooSchema<z.infer<typeof FooSchema>> and the counter is 1.
C2_NamedCallAnnotated ==
  (AnnotatorAt("done") /\ content = StmtNamedPlain) =>
     /\ changes = 1
     /\ Contains(new_content, <<"F","o","o","S","c","h","e","m","a","<","z",".","i","n","f",
                                "e","r","<","t","y","p","e","o","f"," ","F","o","o","S","c",
                                "h","e","m","a",">",">">>)

\* C3: for an inline schema holding bar: z.string().optional() and a handler
\* destructuring bar, the output holds an annotation with the entry bar?: string.
C3_OptionalFieldAnnotated ==
  (AnnotatorAt("done") /\ Contains(content, StmtInlineFields)) =>
     Contains(new_content, <<"b","a","r","?",":"," ","s","t","r","i","n","g">>)

\* C4: for an inline schema holding count: z.number(), not optional, and a
\* handler destructuring count, the output holds an annotation with the entry
\* count: number.
C4_RequiredFieldAnnotated ==
  (AnnotatorAt("done") /\ Contains(content, StmtInlineFields)) =>
     Contains(new_content, <<"c","o","u","n","t",":"," ","n","u","m","b","e","r">>)

\* C5: every matched this.addTool block that lacks a quoted name, a quoted
\* description, an inputSchema identifier or an async handler stands in the
\* output byte for byte as in the input, its trailing ';' included.
C5_IncompleteBlockUntouched ==
  RewriterAt("done") =>
     \A k \in 1..Len(rewrite_log) :
        Incomplete(rewrite_log[k]) =>
           /\ rewrite_log[k].out = rewrite_log[k].old
           /\ PlacedText(file, rewrite_log, k) = rewrite_log[k].old
           /\ EndsWith(PlacedText(file, rewrite_log, k), <<"}",")",";">>)

\* a run that left an incomplete block alone after rewriting a complete one
C5_Witness ==
  /\ RewriterAt("done")
  /\ \E k \in 1..Len(rewrite_log) :
        /\ Incomplete(rewrite_log[k])
        /\ Shift(rewrite_log, k) # 0
        /\ PlacedText(file, rewrite_log, k) = rewrite_log[k].old

\* the file read holds exactly one old-style block, which has the four pieces
OneCompleteBlock ==
  /\ Len(rewrite_log) = 1
  /\ ~Incomplete(rewrite_log[1])
  /\ Count(<<"t","h","i","s",".","a","d","d","T","o","o","l","(">>, content) = 1
  /\ Count(<<"t","h","i","s",".","r","e","g","i","s","t","e","r","T","o","o","l","(">>, content) = 0

\* C6: a file with exactly one old-style block that has the four pieces becomes
\* a text with exactly one this.registerTool call and no this.addTool call, the
\* call starting with the fixed indentation and holding the handler verbatim but
\* for a trailing comma; a file without a matching block is returned unchanged.
C6_OneBlockRewritten ==
  RewriterAt("done") =>
     /\ rewrite_log = <<>> => (new_content = content /\ file = content)
     /\ OneCompleteBlock =>
          LET e == rewrite_log[1]
          IN  /\ Count(<<"t","h","i","s",".","r","e","g","i","s","t","e","r","T","o","o","l",
                         "(">>, file) = 1
              /\ Count(<<"t","h","i","s",".","a","d","d","T","o","o","l","(">>, file) = 0
              /\ file = Slice(content, 0, e.m.start) \o e.out
                          \o Slice(content, e.m.end, Len(content))
              /\ StartsWith(e.out, Indent \o <<"t","h","i","s",".","r","e","g","i","s","t",
                                               "e","r","T","o","o","l","(","\n">>)
              /\ EndsWith(e.out, <<"c","r","e","a","t","e","T","o","o","l","H","a","n","d",
                                   "l","e","r","(">> \o VerbatimHandler(e.old)
                                   \o <<")","\n"," "," "," "," ",")">>)

\* a run that rewrote the one block of a file, a trailing comma after its handler
C6_Witness ==
  /\ RewriterAt("done")
  /\ OneCompleteBlock
  /\ Contains(content, <<"}",",","\n","}",")",";">>)
  /\ Len(content) > Len(rewrite_log[1].old)
  /\ Contains(file, <<"c","r","e","a","t","e","T","o","o","l","H","a","n","d","l","e","r","(",
                      "a","s","y","n","c"," ","(","a","r","g","s",")"," ","=",">"," ","{"," ",
                      "r","e","t","u","r","n"," ","a","r","g","s",";"," ","}",")">>)

\* C7: the counter equals the annotations the two passes inserted; the file is
\* written exactly when the counter is positive; when it is zero the file is
\* untouched and the computed text is the text read.
C7_ChangesCounted ==
  AnnotatorAt("done") =>
     /\ changes = Cardinality(Inserted(named_log)) + Cardinality(Inserted(inline_log))
     /\ changes = Count(<<"c","r","e","a","t","e","T","o","o","l","H","a","n","d","l","e","r",
                          "<">>, new_content)
                    - Count(<<"c","r","e","a","t","e","T","o","o","l","H","a","n","d","l","e",
                              "r","<">>, content)
     /\ written <=> changes > 0
     /\ written => file = new_content
     /\ ~written => file = content
     /\ changes = 0 => new_content = content

\* a run in which each pass inserted an annotation
C7_Witness ==
  /\ AnnotatorAt("done")
  /\ Inserted(named_log) # {}
  /\ Inserted(inline_log) # {}
  /\ changes = 2
  /\ written
  /\ file # content

\* the named matches whose schema name is declared in the file
Resolvable == {k \in 1..Len(named_log) : LogGroup(named_log[k], 2) \in DOMAIN schemas}

\* C8: a named call site whose schema is not declared in the file, and an inline
\* call site with no destructuring list in the window, are returned unchanged and
\* do not increment the counter; a destructured parameter without a type marker
\* in the inline schema gets the type any and no other.
C8_ConservativeSkip ==
  /\ AnnotatorAt("inline") =>
       /\ \A k \in (1..Len(named_log)) \ Resolvable :
             /\ named_log[k].out = named_log[k].old
             /\ PlacedText(new_content, named_log, k) = named_log[k].old
       /\ changes <= Cardinality(Resolvable)
  /\ AnnotatorAt("persist") =>
       /\ \A k \in 1..Len(inline_log) :
             ~ListFound(inline_log[k]) =>
                /\ inline_log[k].out = inline_log[k].old
                /\ PlacedText(new_content, inline_log, k) = inline_log[k].old
       /\ changes - Cardinality(Inserted(named_log))
            <= Cardinality({k \in 1..Len(inline_log) : ListFound(inline_log[k])})
       /\ \A k \in Inserted(inline_log) :
             LET e == inline_log[k]
                 names == NamesOf(e.next, Search(handler_pattern, e.next, 0))
             IN  /\ Len(Entries(e)) = Len(names)
                 /\ \A j \in 1..Len(names) :
                       ~Search(type_pattern(names[j]), LogGroup(e, 2), 0).ok =>
                          Entries(e)[j] = names[j] \o <<":"," ","a","n","y">>

\* a run with an undeclared named call site, an inline call site without a
\* destructuring list, and an annotation holding a parameter without a marker
C8_Witness ==
  /\ AnnotatorAt("persist")
  /\ \E k \in (1..Len(named_log)) \ Resolvable :
        named_log[k].out = named_log[k].old
  /\ \E k \in 1..Len(inline_log) :
        ~ListFound(inline_log[k]) /\ inline_log[k].out = inline_log[k].old
  /\ \E k \in Inserted(inline_log) :
        /\ Contains(inline_log[k].out, <<"<","{"," ","c","o","u","n","t",":"," ","n","u","m",
                                         "b","e","r",";"," ","b","a","r",":"," ","a","n","y",
                                         " ","}",">">>)
        /\ ~Search(type_pattern(<<"b","a","r">>), LogGroup(inline_log[k], 2), 0).ok

\* C9: in the inline-schema pass a match is skipped as already annotated
\* according to the characters that follow it in the text being rewritten,
\* whatever the named-schema pass inserted before it: a match followed by '<'
\* is left alone, and a match not followed by '<' whose window holds a
\* destructuring list is annotated.
C9_SkipReadsRewrittenText ==
  AnnotatorAt("persist") =>
     \A k \in 1..Len(inline_log) :
        LET e == inline_log[k]
        IN  /\ StartsWith(e.next, <<"<">>) => e.out = e.old
            /\ (~StartsWith(e.next, <<"<">>) /\ ListFound(e)) => e.out # e.old

\* C10: the parameter names of an inline annotation are those of the
\* destructuring list of the call's own handler; when that handler has none, no
\* annotation is made from the list of a later handler in the window.
C10_OwnHandlerOnly ==
  AnnotatorAt("persist") =>
     \A k \in Inserted(inline_log) :
        LET e == inline_log[k]
        IN  /\ OwnList(e).ok
            /\ [j \in 1..Len(Entries(e)) |-> EntryName(Entries(e)[j])]
                 = NamesOf(e.next, OwnList(e))

====
